---- MODULE Spec2Model ----
(***************************************************************************)
(* A model of chat.py: the AST visitor CodeAnalyzer, analyze_python_file,  *)
(* generate_summary_text, find_python_files, compare_files_command and the *)
(* session loop of the voice assistant.                                    *)
(***************************************************************************)
EXTENDS Integers, Sequences, FiniteSets, TLC

(***************************************************************************)
(* Bounds of the model.                                                    *)
(***************************************************************************)
\* statement nodes of a syntax tree given to the visitor alone
MaxNodes == 3

\* Python's None
None == "None"

Range(s) == {s[i] : i \in 1..Len(s)}

(***************************************************************************)
(* Syntax trees, as ast.parse builds them.  A tree is the sequence of its  *)
(* statement nodes in source order; node.parent is the index of the        *)
(* statement whose body holds it, 0 for the Module; node.lineno is the     *)
(* line the statement starts on.                                           *)
(***************************************************************************)
FunctionKinds == {"FunctionDef", "AsyncFunctionDef"}
Containers == FunctionKinds \cup {"ClassDef", "If"}

\* expressions that occur as decorators, base classes and assignment targets
Name(id) == [t |-> "Name", id |-> id, addr |-> 0]
Attribute(value, attr) == [t |-> "Attribute", value |-> value, attr |-> attr, addr |-> 0]
Call(func) == [t |-> "Call", func |-> func, addr |-> 0]
Subscript(value) == [t |-> "Subscript", value |-> value, addr |-> 0]
TupleExpr(elts) == [t |-> "Tuple", elts |-> elts, addr |-> 0]

FunctionDef(name, args, decorators) ==
    [kind |-> "FunctionDef", parent |-> 0, lineno |-> 0, name |-> name, args |-> args,
     decorator_list |-> decorators]
AsyncFunctionDef(name, args, decorators) ==
    [kind |-> "AsyncFunctionDef", parent |-> 0, lineno |-> 0, name |-> name, args |-> args,
     decorator_list |-> decorators]
ClassDef(name, bases) ==
    [kind |-> "ClassDef", parent |-> 0, lineno |-> 0, name |-> name, bases |-> bases]
IfStmt == [kind |-> "If", parent |-> 0, lineno |-> 0]
Assign(targets) == [kind |-> "Assign", parent |-> 0, lineno |-> 0, targets |-> targets]
Import(names) == [kind |-> "Import", parent |-> 0, lineno |-> 0, names |-> names]
ImportFrom(module, names) ==
    [kind |-> "ImportFrom", parent |-> 0, lineno |-> 0, module |-> module, names |-> names]
PassStmt == [kind |-> "Pass", parent |-> 0, lineno |-> 0]
ExprStr(value) == [kind |-> "Expr", parent |-> 0, lineno |-> 0, value |-> value]

\* node.body: the statements directly inside node n (0: the Module), in order
Body(t, n) == SelectSeq([i \in 1..Len(t) |-> i], LAMBDA i : t[i].parent = n)

RECURSIVE Ancestors(_, _)
Ancestors(t, n) == IF n = 0 THEN {0} ELSE {n} \cup Ancestors(t, t[n].parent)

\* the bodies a next statement in source order can belong to: a compound
\* statement has a non-empty body, so the statement after one opens its body
OpenParents(t) ==
    IF Len(t) = 0 THEN {0}
    ELSE IF t[Len(t)].kind \in Containers THEN {Len(t)}
    ELSE Ancestors(t, t[Len(t)].parent)

Extend(t, forms) ==
    {Append(t, [f EXCEPT !.parent = p, !.lineno = Len(t) + 1]) :
        f \in forms, p \in OpenParents(t)}

RECURSIVE TreesOf(_, _)
TreesOf(n, forms) ==
    IF n = 0 THEN {<<>>}
    ELSE UNION {Extend(t, forms) : t \in TreesOf(n - 1, forms)}

Complete(t) == Len(t) = 0 \/ t[Len(t)].kind \notin Containers

Trees(n, forms) ==
    {t \in UNION {TreesOf(k, forms) : k \in 0..n} : Complete(t)}

\* the statement forms of the trees the visitor is run on
VisitForms ==
    {FunctionDef("f", <<"a", "b">>, <<>>),
     AsyncFunctionDef("g", <<>>, <<>>),
     ClassDef("C", <<>>),
     IfStmt,
     PassStmt,
     ExprStr("doc"),
     Assign(<<Name("x")>>),
     Assign(<<Name("x"), Name("y")>>),
     Assign(<<TupleExpr(<<Name("u"), Name("v")>>)>>),
     Assign(<<Attribute(Name("self"), "w")>>),
     Import(<<"os", "sys">>),
     ImportFrom("os", <<"path">>)}

VARIABLES
    tree,               \* the tree being visited
    todo,               \* the nodes the pending generic_visit calls still visit
    functions,          \* CodeAnalyzer.functions
    classes,            \* CodeAnalyzer.classes
    imports,            \* CodeAnalyzer.imports
    global_vars,        \* CodeAnalyzer.global_vars
    docstring,          \* CodeAnalyzer.docstring
    complexity_score,   \* CodeAnalyzer.complexity_score
    vpc                 \* where the visitor is: "none", "new", "visiting", "done"

\* analyze_python_file
VARIABLES
    file,               \* the file at filepath
    apc,                \* where analyze_python_file is
    code,               \* the text read: code.split('\n')
    raised,             \* the exception in flight, or None
    results             \* what the calls so far returned

\* find_python_files
VARIABLES
    fs,                 \* the directory tree on disk
    directory,          \* the root argument: an entry of fs, 0 for '.'
    walk,               \* the directories os.walk has still to yield
    listed,             \* the directories os.walk has listed so far
    python_files,       \* the list being built
    wpc                 \* where find_python_files is

\* generate_summary_text
VARIABLES
    analysis,           \* the argument
    summary_text,       \* the parts of the text returned, None before
    gpc                 \* where generate_summary_text is

\* main_loop, assistant_active_session and the two commands
VARIABLES
    mpc,                \* where the assistant is
    elapsed,            \* time.time() - last_activity, in seconds
    text,               \* the utterance the session loop is handling
    response,           \* analyze_code_command: what was answered
    file1,              \* compare_files_command: the first file name
    file2,              \* compare_files_command: the second file name
    files,              \* analyze_code_command: the files still to analyze
    comparison,         \* compare_files_command: the differences reported
    status              \* how the process ended, None while it runs

visitVars == <<tree, todo, functions, classes, imports, global_vars, docstring,
               complexity_score, vpc>>
analyzeVars == <<file, apc, code, raised, results>>

walkVars == <<fs, directory, walk, listed, python_files, wpc>>

summaryVars == <<analysis, summary_text, gpc>>
sessionVars == <<mpc, elapsed, text, response, file1, file2, files, comparison,
                 status>>

vars == <<visitVars, analyzeVars, walkVars, summaryVars, sessionVars>>

\* what the visitor leaves alone
notVisit == <<analyzeVars, walkVars, summaryVars, sessionVars>>
\* what analyze_python_file leaves alone
notAnalyze == <<walkVars, summaryVars, sessionVars>>
\* what find_python_files leaves alone
notWalk == <<visitVars, analyzeVars, summaryVars, sessionVars>>
\* what generate_summary_text leaves alone
notSummary == <<visitVars, analyzeVars, walkVars, sessionVars>>

\* the assistant is not running
SessionIdle ==
    /\ mpc = "none"
    /\ elapsed = 0
    /\ text = ""
    /\ response = ""
    /\ file1 = ""
    /\ file2 = ""
    /\ files = <<>>
    /\ comparison = None
    /\ status = None

\* generate_summary_text is not running
SummaryIdle ==
    /\ analysis = None
    /\ summary_text = None
    /\ gpc = "idle"

\* find_python_files is not running
WalkIdle ==
    /\ fs = <<>>
    /\ directory = 0
    /\ walk = <<>>
    /\ listed = {}
    /\ python_files = <<>>
    /\ wpc = "idle"

(***************************************************************************)
(* CodeAnalyzer                                                            *)
(***************************************************************************)
\* str(node) of an ast node: object.__repr__, which prints the address
Str(node) == <<"<ast." \o node.t \o " object at", node.addr, ">">>

RECURSIVE _get_name(_)
_get_name(node) ==
    IF node.t = "Name" THEN <<node.id>>
    ELSE IF node.t = "Attribute" THEN _get_name(node.value) \o <<".", node.attr>>
    ELSE Str(node)

_get_decorator_name(decorator) ==
    IF decorator.t = "Name" THEN <<decorator.id>>
    ELSE IF decorator.t = "Call" THEN _get_name(decorator.func)
    ELSE Str(decorator)

\* ast.get_docstring: the string of a leading string-expression statement
get_docstring(t, n) ==
    LET body == Body(t, n) IN
    IF Len(body) > 0 /\ t[body[1]].kind = "Expr" THEN t[body[1]].value ELSE None

Truthy(v) == v /= None /\ v /= ""

MapSeq(Op(_), s) == [i \in 1..Len(s) |-> Op(s[i])]

\* the amount visit_FunctionDef adds to the score
FunctionWeight(t, n) == Len(Body(t, n))

\* the methods visit_ClassDef lists
Methods(t, n) == SelectSeq(Body(t, n), LAMBDA i : t[i].kind \in FunctionKinds)

\* a visit_ method that forgets to call generic_visit
GenericVisitForgotten(t, n, pending) == pending

\* the nodes generic_visit(n) goes on to visit, before what was pending
GenericVisit(t, n, pending) == Body(t, n) \o pending

func_info(t, n) ==
    [name |-> t[n].name,
     args |-> t[n].args,
     decorators |-> MapSeq(_get_decorator_name, t[n].decorator_list),
     docstring |-> get_docstring(t, n),
     line_number |-> t[n].lineno,
     is_async |-> t[n].kind = "AsyncFunctionDef"]

class_info(t, n) ==
    [name |-> t[n].name,
     bases |-> MapSeq(_get_name, t[n].bases),
     methods |-> MapSeq(LAMBDA i : t[i].name, Methods(t, n)),
     docstring |-> get_docstring(t, n),
     line_number |-> t[n].lineno]

\* the simple-name targets visit_Assign records
NameTargets(targets) ==
    MapSeq(LAMBDA e : e.id, SelectSeq(targets, LAMBDA e : e.t = "Name"))

\* CodeAnalyzer() followed by analyzer.visit(tree): __init__, then visit_Module
visit_Module ==
    /\ vpc = "new"
    /\ functions' = <<>>
    /\ classes' = <<>>
    /\ imports' = <<>>
    /\ global_vars' = <<>>
    /\ complexity_score' = 0
    /\ docstring' = IF Truthy(get_docstring(tree, 0))
                    THEN get_docstring(tree, 0) ELSE None
    /\ todo' = GenericVisit(tree, 0, <<>>)
    /\ vpc' = "visiting"
    /\ UNCHANGED <<tree, notVisit>>

Visiting(kinds) ==
    /\ vpc = "visiting"
    /\ todo /= <<>>
    /\ tree[Head(todo)].kind \in kinds

record_function(n) ==
    /\ functions' = Append(functions, func_info(tree, n))
    /\ complexity_score' = complexity_score + FunctionWeight(tree, n)
    /\ todo' = GenericVisit(tree, n, Tail(todo))
    /\ UNCHANGED <<tree, classes, imports, global_vars, docstring, vpc, notVisit>>

visit_FunctionDef ==
    /\ Visiting({"FunctionDef"})
    /\ record_function(Head(todo))

\* delegates to visit_FunctionDef
visit_AsyncFunctionDef ==
    /\ Visiting({"AsyncFunctionDef"})
    /\ record_function(Head(todo))

visit_ClassDef ==
    /\ Visiting({"ClassDef"})
    /\ LET n == Head(todo) IN
        /\ classes' = Append(classes, class_info(tree, n))
        /\ complexity_score' = complexity_score + Len(Methods(tree, n)) * 2
        /\ todo' = GenericVisit(tree, n, Tail(todo))
    /\ UNCHANGED <<tree, functions, imports, global_vars, docstring, vpc, notVisit>>

\* no generic_visit: an import has no statements below it
visit_Import ==
    /\ Visiting({"Import"})
    /\ imports' = imports \o tree[Head(todo)].names
    /\ todo' = Tail(todo)
    /\ UNCHANGED <<tree, functions, classes, global_vars, docstring,
                   complexity_score, vpc, notVisit>>

visit_ImportFrom ==
    /\ Visiting({"ImportFrom"})
    /\ LET node == tree[Head(todo)]
           module == IF node.module = None THEN "" ELSE node.module
       IN imports' = imports \o MapSeq(LAMBDA a : module \o "." \o a, node.names)
    /\ todo' = Tail(todo)
    /\ UNCHANGED <<tree, functions, classes, global_vars, docstring,
                   complexity_score, vpc, notVisit>>

\* the generic_visit of an Assign reaches expressions only
visit_Assign ==
    /\ Visiting({"Assign"})
    /\ LET n == Head(todo) IN
        /\ global_vars' = global_vars \o NameTargets(tree[n].targets)
        /\ todo' = GenericVisit(tree, n, Tail(todo))
    /\ UNCHANGED <<tree, functions, classes, imports, docstring,
                   complexity_score, vpc, notVisit>>

\* a node without a visit_ method: NodeVisitor.generic_visit
generic_visit ==
    /\ Visiting({"If", "Pass", "Expr"})
    /\ todo' = GenericVisit(tree, Head(todo), Tail(todo))
    /\ UNCHANGED <<tree, functions, classes, imports, global_vars, docstring,
                   complexity_score, vpc, notVisit>>

\* analyzer.visit(tree) returns
visit_return ==
    /\ vpc = "visiting"
    /\ todo = <<>>
    /\ vpc' = "done"
    /\ UNCHANGED <<tree, todo, functions, classes, imports, global_vars,
                   docstring, complexity_score, notVisit>>

VisitStep ==
    \/ visit_FunctionDef
    \/ visit_AsyncFunctionDef
    \/ visit_ClassDef
    \/ visit_Import
    \/ visit_ImportFrom
    \/ visit_Assign
    \/ generic_visit

InitVisit ==
    /\ tree \in Trees(MaxNodes, VisitForms)
    /\ todo = <<>>
    /\ functions = <<>>
    /\ classes = <<>>
    /\ imports = <<>>
    /\ global_vars = <<>>
    /\ docstring = None
    /\ complexity_score = 0
    /\ vpc = "new"
    /\ file = None
    /\ apc = "idle"
    /\ code = <<>>
    /\ raised = None
    /\ results = <<>>
    /\ WalkIdle
    /\ SummaryIdle
    /\ SessionIdle

NextVisit ==
    \/ visit_Module
    \/ VisitStep
    \/ visit_return

SpecVisit == InitVisit /\ [][NextVisit]_vars

(***************************************************************************)
(* Files and their text.  Text and paths are sequences of characters.      *)
(***************************************************************************)
Whitespace == {" ", "\t"}

RECURSIVE Join(_)
\* '\n'.join(lines)
Join(lines) ==
    IF Len(lines) = 0 THEN <<>>
    ELSE IF Len(lines) = 1 THEN lines[1]
    ELSE lines[1] \o <<"\n">> \o Join(Tail(lines))

RECURSIVE Split(_)
\* text.split('\n')
Split(txt) ==
    IF \A i \in 1..Len(txt) : txt[i] /= "\n" THEN <<txt>>
    ELSE LET i == CHOOSE k \in 1..Len(txt) :
                    txt[k] = "\n" /\ \A j \in 1..(k - 1) : txt[j] /= "\n"
         IN <<SubSeq(txt, 1, i - 1)>> \o Split(SubSeq(txt, i + 1, Len(txt)))

RECURSIVE LStrip(_)
LStrip(line) ==
    IF line /= <<>> /\ Head(line) \in Whitespace THEN LStrip(Tail(line)) ELSE line

RECURSIVE RStrip(_)
RStrip(line) ==
    IF line /= <<>> /\ line[Len(line)] \in Whitespace
    THEN RStrip(SubSeq(line, 1, Len(line) - 1)) ELSE line

\* line.strip()
Strip(line) == RStrip(LStrip(line))

\* line.strip() and not line.strip().startswith('#')
IsCodeLine(line) == Strip(line) /= <<>> /\ Head(Strip(line)) /= "#"

\* os.path.basename: what follows the last '/'
Basename(path) ==
    LET slashes == {i \in 1..Len(path) : SubSeq(path, i, i) = "/"}
        last == IF slashes = {} THEN 0
                ELSE CHOOSE i \in slashes : \A j \in slashes : j <= i
    IN SubSeq(path, last + 1, Len(path))

\* the line of source of statement n: indented by its depth
Indent(t, n) == [i \in 1..(Cardinality(Ancestors(t, n)) - 2) |-> " "]
StatementLine(t, n) == Indent(t, n) \o <<"s">>

\* a source text that parses to tree t: the header lines (comments, blanks),
\* one line per statement, and a final newline or none
Render(header, t, newline) ==
    Join(header \o [n \in 1..Len(t) |-> StatementLine(t, n)])
        \o (IF newline THEN <<"\n">> ELSE <<>>)

\* the tree of a text whose statements start after k header lines
ShiftLines(t, k) == [n \in 1..Len(t) |-> [t[n] EXCEPT !.lineno = @ + k]]

(***************************************************************************)
(* Exceptions: the classes the calls of analyze_python_file raise          *)
(***************************************************************************)
Mro(exc) ==
    CASE exc = "FileNotFoundError" -> {exc, "OSError", "Exception", "BaseException"}
      [] exc = "IsADirectoryError" -> {exc, "OSError", "Exception", "BaseException"}
      [] exc = "UnicodeDecodeError" ->
            {exc, "UnicodeError", "ValueError", "Exception", "BaseException"}
      [] exc = "ValueError" -> {exc, "Exception", "BaseException"}
      [] exc = "IndentationError" ->
            {exc, "SyntaxError", "Exception", "BaseException"}
      [] exc = "SyntaxError" -> {exc, "Exception", "BaseException"}
      [] OTHER -> {exc, "BaseException"}

IsInstance(exc, cls) == cls \in Mro(exc)

\* a catch-all clause that names OSError only
ExceptClausesNarrow == <<"SyntaxError", "OSError">>

\* the classes the except clauses of analyze_python_file name, in order
ExceptClauses == <<"SyntaxError", "Exception">>

\* the except clause that handles exc: the first whose class it is an instance
\* of; 0 when none does and exc propagates to the caller
Handler(exc) ==
    LET fits == {i \in 1..Len(ExceptClauses) : IsInstance(exc, ExceptClauses[i])}
    IN IF fits = {} THEN 0 ELSE CHOOSE i \in fits : \A j \in fits : i <= j

(***************************************************************************)
(* analyze_python_file                                                     *)
(***************************************************************************)
\* the addresses a parse may allocate its nodes at
HeapSlots == 2
Addrs == 1..HeapSlots

RECURSIVE AllocExpr(_, _)
AllocExpr(e, a) ==
    CASE e.t = "Attribute" -> [e EXCEPT !.addr = a, !.value = AllocExpr(@, a)]
      [] e.t = "Call" -> [e EXCEPT !.addr = a, !.func = AllocExpr(@, a)]
      [] e.t = "Subscript" -> [e EXCEPT !.addr = a, !.value = AllocExpr(@, a)]
      [] e.t = "Tuple" ->
            [e EXCEPT !.addr = a,
                      !.elts = [i \in 1..Len(@) |-> AllocExpr(@[i], a)]]
      [] OTHER -> [e EXCEPT !.addr = a]

AllocNode(node, a) ==
    CASE node.kind \in FunctionKinds ->
            [node EXCEPT !.decorator_list = [i \in 1..Len(@) |-> AllocExpr(@[i], a)]]
      [] node.kind = "ClassDef" ->
            [node EXCEPT !.bases = [i \in 1..Len(@) |-> AllocExpr(@[i], a)]]
      [] node.kind = "Assign" ->
            [node EXCEPT !.targets = [i \in 1..Len(@) |-> AllocExpr(@[i], a)]]
      [] OTHER -> node

\* the tree object ast.parse returns for a text with tree t, built at address a
Parsed(t, a) == [n \in 1..Len(t) |-> AllocNode(t[n], a)]

\* list(set(s)): the elements of s once each, in an order the set decides
Orderings(S) == {o \in [1..Cardinality(S) -> S] : Range(o) = S}

SuccessKeys ==
    {"filename", "total_lines", "code_lines", "functions", "classes", "imports",
     "global_vars", "docstring", "complexity"}

\* analyze_python_file(filepath) is called
analyze_call ==
    /\ apc = "idle"
    /\ apc' = "open"
    /\ UNCHANGED <<file, code, raised, results, visitVars, notAnalyze>>

\* with open(filepath, 'r', encoding='utf-8') as f: code = f.read()
analyze_read ==
    /\ apc = "open"
    /\ IF file.open /= "ok"
       THEN raised' = file.open /\ apc' = "except" /\ UNCHANGED code
       ELSE IF file.decode /= "ok"
       THEN raised' = file.decode /\ apc' = "except" /\ UNCHANGED code
       ELSE code' = file.content /\ apc' = "parse" /\ UNCHANGED raised
    /\ UNCHANGED <<file, results, visitVars, notAnalyze>>

\* tree = ast.parse(code, filename=filepath); analyzer = CodeAnalyzer()
analyze_parse ==
    /\ apc = "parse"
    /\ IF file.parse /= "ok"
       THEN raised' = file.parse /\ apc' = "except" /\ UNCHANGED <<tree, vpc>>
       ELSE /\ \E a \in Addrs : tree' = Parsed(file.ast, a)
            /\ vpc' = "new"
            /\ apc' = "visit"
            /\ UNCHANGED raised
    /\ UNCHANGED <<file, code, results, todo, functions, classes, imports,
                   global_vars, docstring, complexity_score, notAnalyze>>

summary(imports_list, global_vars_list) ==
    LET lines == Split(code) IN
    [filename |-> Basename(file.path),
     total_lines |-> Len(lines),
     code_lines |-> Len(SelectSeq(lines, IsCodeLine)),
     functions |-> functions,
     classes |-> classes,
     imports |-> imports_list,
     global_vars |-> global_vars_list,
     docstring |-> docstring,
     complexity |-> complexity_score]

\* the lines are counted, the summary is built and returned; the tree, the
\* analyzer and the text go out of scope
analyze_return ==
    /\ apc = "visit"
    /\ vpc = "done"
    /\ \E i \in Orderings(Range(imports)), g \in Orderings(Range(global_vars)) :
            results' = Append(results, summary(i, g))
    /\ apc' = "idle"
    /\ vpc' = "none"
    /\ tree' = <<>>
    /\ todo' = <<>>
    /\ functions' = <<>>
    /\ classes' = <<>>
    /\ imports' = <<>>
    /\ global_vars' = <<>>
    /\ docstring' = None
    /\ complexity_score' = 0
    /\ code' = <<>>
    /\ UNCHANGED <<file, raised, notAnalyze>>

\* except SyntaxError as e
except_SyntaxError ==
    /\ apc = "except"
    /\ Handler(raised) = 1
    /\ results' = Append(results, [error |-> <<"Syntax error in file: ", raised>>])
    /\ raised' = None
    /\ apc' = "idle"
    /\ code' = <<>>
    /\ UNCHANGED <<file, visitVars, notAnalyze>>

\* except Exception as e; what neither clause handles leaves the function
except_Exception ==
    /\ apc = "except"
    /\ Handler(raised) /= 1
    /\ IF Handler(raised) = 2
       THEN /\ results' = Append(results,
                            [error |-> <<"Error analyzing file: ", raised>>])
            /\ raised' = None
            /\ apc' = "idle"
       ELSE /\ apc' = "propagated"
            /\ UNCHANGED <<results, raised>>
    /\ code' = <<>>
    /\ UNCHANGED <<file, visitVars, notAnalyze>>

(***************************************************************************)
(* The files analyze_python_file is run on                                 *)
(***************************************************************************)
\* statement nodes of a source file's tree
MaxSourceNodes == 2
\* calls of analyze_python_file on the one file
Runs == 2

SourceForms ==
    {FunctionDef("f", <<"a">>, <<Name("d")>>),
     FunctionDef("f", <<>>, <<Call(Attribute(Name("m"), "d"))>>),
     AsyncFunctionDef("g", <<>>, <<Attribute(Name("m"), "d")>>),
     ClassDef("C", <<Name("B")>>),
     ClassDef("C", <<Attribute(Name("m"), "B")>>),
     ClassDef("C", <<Subscript(Name("List"))>>),
     PassStmt,
     ExprStr("doc"),
     Assign(<<Name("x")>>),
     Import(<<"os", "sys">>),
     ImportFrom(None, <<"os">>)}

\* path, header lines and final newline of the source files
SourceLayouts ==
    {<<"a.py", <<>>, FALSE>>,
     <<"a.py", <<>>, TRUE>>,
     <<"d/a.py", <<<<"#", "c">>, <<" ">>>>, TRUE>>}

SourceFile(layout, t) ==
    [path |-> layout[1], open |-> "ok", decode |-> "ok", parse |-> "ok",
     content |-> Render(layout[2], t, layout[3]),
     ast |-> ShiftLines(t, Len(layout[2]))]

\* a file that cannot be opened, decoded or parsed
BadFile(open, decode, parse) ==
    [path |-> "b.py", open |-> open, decode |-> decode,
     parse |-> parse, content |-> <<"d", "e", "f", " ", "f", "(", ":", "\n">>,
     ast |-> <<>>]

BadFiles ==
    {BadFile("FileNotFoundError", "ok", "ok"),
     BadFile("IsADirectoryError", "ok", "ok"),
     BadFile("ok", "UnicodeDecodeError", "ok"),
     BadFile("ok", "ok", "SyntaxError"),
     BadFile("ok", "ok", "IndentationError"),
     BadFile("ok", "ok", "ValueError")}

SourceFiles ==
    {SourceFile(l, t) : l \in SourceLayouts, t \in Trees(MaxSourceNodes, SourceForms)}

InitAnalyze ==
    /\ file \in SourceFiles \cup BadFiles
    /\ apc = "idle"
    /\ code = <<>>
    /\ raised = None
    /\ results = <<>>
    /\ tree = <<>>
    /\ todo = <<>>
    /\ functions = <<>>
    /\ classes = <<>>
    /\ imports = <<>>
    /\ global_vars = <<>>
    /\ docstring = None
    /\ complexity_score = 0
    /\ vpc = "none"
    /\ WalkIdle
    /\ SummaryIdle
    /\ SessionIdle

\* the file is analyzed again
analyze_again ==
    /\ Len(results) < Runs
    /\ analyze_call

NextAnalyze ==
    \/ analyze_again
    \/ analyze_read
    \/ analyze_parse
    \/ visit_Module
    \/ VisitStep
    \/ visit_return
    \/ analyze_return
    \/ except_SyntaxError
    \/ except_Exception

SpecAnalyze == InitAnalyze /\ [][NextAnalyze]_vars

(***************************************************************************)
(* find_python_files                                                       *)
(***************************************************************************)
\* entries of the directory tree below the working directory
MaxEntries == 3

DotGit == ".git"
PyCache == "__pycache__"
Venv == "venv"
Env == "env"
NodeModules == "node_modules"
DotPy == ".py"

EndsWith(name, suffix) ==
    /\ Len(name) >= Len(suffix)
    /\ SubSeq(name, Len(name) - Len(suffix) + 1, Len(name)) = suffix


\* the names find_python_files removes from dirs
SkippedDirs == {DotGit, PyCache, Venv, Env, NodeModules}

\* an entry of the tree: a directory, a file, or a symbolic link to a
\* directory; parent is the entry of the directory holding it, 0 for the
\* working directory
Entry(name, type) == [name |-> name, type |-> type, parent |-> 0]

EntryForms ==
    {Entry(Venv, "dir"), Entry(Env, "dir"), Entry(DotGit, "dir"),
     Entry("src", "dir"),
     Entry("lnk", "dirlink"),
     Entry("a.py", "file"),
     Entry("b.txt", "file")}

DirsOf(f) == {i \in 1..Len(f) : f[i].type = "dir"}

\* the trees with one more entry: in a directory that has none of its name
ExtendFS(f) ==
    {Append(f, [e EXCEPT !.parent = p]) :
        e \in EntryForms,
        p \in {q \in {0} \cup DirsOf(f) : TRUE}}

NamesUnique(f) ==
    \A i, j \in 1..Len(f) :
        (i /= j /\ f[i].parent = f[j].parent) => f[i].name /= f[j].name

RECURSIVE FileSystemsOf(_)
FileSystemsOf(n) ==
    IF n = 0 THEN {<<>>}
    ELSE {f \in UNION {ExtendFS(g) : g \in FileSystemsOf(n - 1)} : NamesUnique(f)}

FileSystems == UNION {FileSystemsOf(n) : n \in 0..MaxEntries}

RECURSIVE Components(_)
\* the names a path is made of, between its '/'
Components(path) ==
    LET slashes == {i \in 1..Len(path) : SubSeq(path, i, i) = "/"} IN
    IF slashes = {} THEN <<path>>
    ELSE LET i == CHOOSE k \in slashes : \A j \in slashes : k <= j
         IN <<SubSeq(path, 1, i - 1)>> \o Components(SubSeq(path, i + 1, Len(path)))

\* os.path.join(root, name)
os_path_join(root, name) == root \o "/" \o name

RECURSIVE PathOf(_, _)
\* the path of entry d, relative to the working directory
PathOf(f, d) ==
    IF f[d].parent = 0 THEN f[d].name
    ELSE os_path_join(PathOf(f, f[d].parent), f[d].name)

\* the root argument naming directory d
RootPath(f, d) == IF d = 0 THEN "." ELSE PathOf(f, d)

\* os.scandir(top): the entries of directory top
Scan(f, top) == SelectSeq([i \in 1..Len(f) |-> i], LAMBDA i : f[i].parent = top)

\* a filter that forgets 'env'
PruneButEnv(f, dirs) == SelectSeq(dirs, LAMBDA d : f[d].name \notin SkippedDirs \ {Env})

\* dirs[:] = [d for d in dirs if d not in [...]]
Prune(f, dirs) == SelectSeq(dirs, LAMBDA d : f[d].name \notin SkippedDirs)

\* find_python_files(directory) is called: python_files = []; os.walk(directory)
find_python_files ==
    /\ wpc = "call"
    /\ python_files' = <<>>
    /\ walk' = <<[dir |-> directory, root |-> RootPath(fs, directory)]>>
    /\ listed' = {}
    /\ wpc' = "walking"
    /\ UNCHANGED <<fs, directory, notWalk>>

\* one turn of the for loop: os.walk lists the next directory, the loop body
\* prunes dirs and collects the files, and os.walk descends into what is left
\* of dirs, symbolic links excepted
walk_step ==
    /\ wpc = "walking"
    /\ walk /= <<>>
    /\ LET top == Head(walk)
           entries == Scan(fs, top.dir)
           dirs == SelectSeq(entries, LAMBDA i : fs[i].type \in {"dir", "dirlink"})
           nondirs == SelectSeq(entries, LAMBDA i : fs[i].type = "file")
           kept == Prune(fs, dirs)
           found == SelectSeq(nondirs, LAMBDA i : EndsWith(fs[i].name, DotPy))
           descend == SelectSeq(kept, LAMBDA i : fs[i].type = "dir")
       IN /\ python_files' = python_files \o
                    [k \in 1..Len(found) |-> os_path_join(top.root, fs[found[k]].name)]
          /\ walk' = [k \in 1..Len(descend) |->
                        [dir |-> descend[k],
                         root |-> os_path_join(top.root, fs[descend[k]].name)]]
                     \o Tail(walk)
          /\ listed' = listed \cup {top.dir}
    /\ UNCHANGED <<fs, directory, wpc, notWalk>>

\* os.walk is exhausted: return python_files
walk_return ==
    /\ wpc = "walking"
    /\ walk = <<>>
    /\ wpc' = "done"
    /\ UNCHANGED <<fs, directory, walk, listed, python_files, notWalk>>

AnalyzerIdle ==
    /\ file = None
    /\ apc = "idle"
    /\ code = <<>>
    /\ raised = None
    /\ results = <<>>
    /\ tree = <<>>
    /\ todo = <<>>
    /\ functions = <<>>
    /\ classes = <<>>
    /\ imports = <<>>
    /\ global_vars = <<>>
    /\ docstring = None
    /\ complexity_score = 0
    /\ vpc = "none"

InitWalk ==
    /\ fs \in FileSystems
    /\ directory \in {0} \cup DirsOf(fs)
    /\ walk = <<>>
    /\ listed = {}
    /\ python_files = <<>>
    /\ wpc = "call"
    /\ AnalyzerIdle
    /\ SummaryIdle
    /\ SessionIdle

NextWalk ==
    \/ find_python_files
    \/ walk_step
    \/ walk_return

SpecWalk == InitWalk /\ [][NextWalk]_vars

(***************************************************************************)
(* generate_summary_text                                                   *)
(***************************************************************************)
DescriptionChars == 100
ImportsListed == 5
ClassesListed == 3
FunctionsListed == 5
ModerateFrom == 50
ComplexFrom == 150

Min(a, b) == IF a < b THEN a ELSE b

\* a slice that takes one element more
TakeOneMore(s, n) == SubSeq(s, 1, Min(n + 1, Len(s)))

\* s[:n]
Take(s, n) == SubSeq(s, 1, Min(n, Len(s)))

\* thresholds that count the lower edge with the tier below
complexity_desc_edges(score) ==
    IF score <= ModerateFrom THEN "simple"
    ELSE IF score <= ComplexFrom THEN "moderate"
    ELSE "complex"

complexity_desc(score) ==
    IF score < ModerateFrom THEN "simple"
    ELSE IF score < ComplexFrom THEN "moderate"
    ELSE "complex"

class_line(cls) == <<"  - ", cls.name, " with ", Len(cls.methods), " methods">>

function_line(func) ==
    <<"  - ", func.name, "(", IF func.args /= <<>> THEN func.args ELSE "no args", ")">>

\* the parts list of a success-state analysis
parts(a) ==
    <<<<"File: ", a.filename>>,
      <<"Total lines: ", a.total_lines, ", Code lines: ", a.code_lines>>>>
    \o (IF Truthy(a.docstring)
        THEN <<<<"Description: ", Take(a.docstring, DescriptionChars)>>>>
        ELSE <<>>)
    \o (IF a.imports /= <<>>
        THEN <<<<"Uses ", Len(a.imports), " libraries including: ",
                 Take(a.imports, ImportsListed)>>>>
        ELSE <<>>)
    \o (IF a.classes /= <<>>
        THEN <<<<"Contains ", Len(a.classes), " classes:">>>>
             \o MapSeq(class_line, Take(a.classes, ClassesListed))
        ELSE <<>>)
    \o (IF a.functions /= <<>>
        THEN <<<<"Contains ", Len(a.functions), " functions:">>>>
             \o MapSeq(function_line, Take(a.functions, FunctionsListed))
        ELSE <<>>)
    \o <<<<"Code complexity: ", complexity_desc(a.complexity)>>>>

\* what generate_summary_text(a) returns: the error message alone, or the
\* parts that '\n'.join puts one per line
SummaryText(a) == IF "error" \in DOMAIN a THEN <<a.error>> ELSE parts(a)

generate_summary_text ==
    /\ gpc = "call"
    /\ summary_text' = SummaryText(analysis)
    /\ gpc' = "done"
    /\ UNCHANGED <<analysis, notSummary>>

(***************************************************************************)
(* The analyses generate_summary_text is run on                            *)
(***************************************************************************)
\* imports, classes and functions of an analysis
MaxItems == 6
\* complexity scores
MaxScore == 152

RECURSIVE Repeat(_, _)
Repeat(c, n) == IF n = 0 THEN "" ELSE c \o Repeat(c, n - 1)

Docstrings ==
    {None, "", "doc",
     Repeat("a", DescriptionChars - 1) \o "z",
     Repeat("a", DescriptionChars) \o "z"}

SomeFunction(k) ==
    [name |-> "f" \o ToString(k),
     args |-> IF k % 2 = 1 THEN <<>> ELSE <<"a", "b">>,
     decorators |-> <<>>, docstring |-> None, line_number |-> k,
     is_async |-> FALSE]

SomeClass(k) ==
    [name |-> "C" \o ToString(k), bases |-> <<>>,
     methods |-> [i \in 1..(k - 1) |-> "m" \o ToString(i)],
     docstring |-> None, line_number |-> 100 + k]

SomeAnalysis(ni, nc, nf, doc, score) ==
    [filename |-> "a.py",
     total_lines |-> 10,
     code_lines |-> 8,
     functions |-> [k \in 1..nf |-> SomeFunction(k)],
     classes |-> [k \in 1..nc |-> SomeClass(k)],
     imports |-> [k \in 1..ni |-> "lib" \o ToString(k)],
     global_vars |-> <<>>,
     docstring |-> doc,
     complexity |-> score]

Analyses ==
    {SomeAnalysis(ni, nc, nf, doc, score) :
        ni \in {0, ImportsListed, MaxItems},
        nc \in {0, 1, ClassesListed, ClassesListed + 1},
        nf \in {0, FunctionsListed, MaxItems},
        doc \in Docstrings,
        score \in {0, ComplexFrom}}
    \cup {SomeAnalysis(ni, 0, nf, None, 0) : ni \in 0..MaxItems, nf \in 0..MaxItems}
    \cup {SomeAnalysis(0, 0, 0, None, score) : score \in 0..MaxScore}
    \cup {[error |-> <<"Syntax error in file: ", "SyntaxError">>],
          [error |-> <<"Error analyzing file: ", "FileNotFoundError">>]}

InitSummary ==
    /\ analysis \in Analyses
    /\ summary_text = None
    /\ gpc = "call"
    /\ AnalyzerIdle
    /\ WalkIdle
    /\ SessionIdle

NextSummary == generate_summary_text

SpecSummary == InitSummary /\ [][NextSummary]_vars

(***************************************************************************)
(* Strings: what the assistant hears and the tests it makes on it          *)
(***************************************************************************)
UpperCase == "ABCDEFGHIJKLMNOPQRSTUVWXYZ"
LowerCase == "abcdefghijklmnopqrstuvwxyz"

LowerChar(c) ==
    IF \E i \in 1..Len(UpperCase) : SubSeq(UpperCase, i, i) = c
    THEN LET i == CHOOSE k \in 1..Len(UpperCase) : SubSeq(UpperCase, k, k) = c
         IN SubSeq(LowerCase, i, i)
    ELSE c

RECURSIVE Lower(_)
\* str.lower()
Lower(str) ==
    IF str = "" THEN ""
    ELSE LowerChar(SubSeq(str, 1, 1)) \o Lower(SubSeq(str, 2, Len(str)))

\* k in str
Contains(str, k) ==
    \E i \in 1..(Len(str) - Len(k) + 1) : SubSeq(str, i, i + Len(k) - 1) = k

\* any(k in str for k in keys)
AnyIn(keys, str) == \E k \in keys : Contains(str, k)

RECURSIVE Remove(_, _)
\* str.replace(k, '')
Remove(str, k) ==
    IF Len(str) < Len(k) THEN str
    ELSE IF SubSeq(str, 1, Len(k)) = k
    THEN Remove(SubSeq(str, Len(k) + 1, Len(str)), k)
    ELSE SubSeq(str, 1, 1) \o Remove(SubSeq(str, 2, Len(str)), k)

RECURSIVE StripStr(_)
\* str.strip()
StripStr(str) ==
    IF str /= "" /\ SubSeq(str, 1, 1) \in Whitespace
    THEN StripStr(SubSeq(str, 2, Len(str)))
    ELSE IF str /= "" /\ SubSeq(str, Len(str), Len(str)) \in Whitespace
    THEN StripStr(SubSeq(str, 1, Len(str) - 1))
    ELSE str

(***************************************************************************)
(* The files on disk                                                       *)
(***************************************************************************)
\* what reading and parsing a file gives
GoodContent(t) ==
    [decode |-> "ok", parse |-> "ok", content |-> Render(<<>>, t, TRUE), ast |-> t]
BrokenContent ==
    [decode |-> "ok", parse |-> "SyntaxError",
     content |-> <<"d", "e", "f", " ", "f", "(", ":", "\n">>, ast |-> <<>>]
BinaryContent ==
    [decode |-> "UnicodeDecodeError", parse |-> "ok", content |-> <<>>, ast |-> <<>>]

FileEntry(name, parent, holds) ==
    [name |-> name, type |-> "file", parent |-> parent, holds |-> holds]
DirEntry(name, parent) == [name |-> name, type |-> "dir", parent |-> parent]

At(form, parent, lineno) == [form EXCEPT !.parent = parent, !.lineno = lineno]

RichTree ==
    <<At(Import(<<"os">>), 0, 1),
      At(ImportFrom("os", <<"path">>), 0, 2),
      At(ClassDef("C", <<Name("B")>>), 0, 3),
      At(FunctionDef("f", <<"self">>, <<Name("d")>>), 3, 4),
      At(Assign(<<Name("x")>>), 4, 5),
      At(AsyncFunctionDef("g", <<>>, <<>>), 0, 6),
      At(PassStmt, 6, 7)>>

SmallTree ==
    <<At(FunctionDef("h", <<>>, <<>>), 0, 1),
      At(PassStmt, 1, 2)>>

\* a project: parseable files, a file with a syntax error, a file that is not
\* UTF-8, a source directory and a virtual environment
ProjectDisk ==
    <<FileEntry("a.py", 0, GoodContent(RichTree)),
      FileEntry("b.py", 0, BrokenContent),
      FileEntry("c.py", 0, GoodContent(SmallTree)),
      DirEntry("src", 0),
      FileEntry("e.py", 4, BinaryContent),
      DirEntry("venv", 0),
      FileEntry("f.py", 6, BrokenContent)>>

\* a directory without Python files
NotesDisk == <<FileEntry("notes.txt", 0, BinaryContent)>>

\* a directory of more Python files than one command analyzes
ManyDisk ==
    [i \in 1..6 |-> FileEntry("p" \o ToString(i) \o ".py", 0, GoodContent(SmallTree))]

Disks == {ProjectDisk, NotesDisk, ManyDisk}

RECURSIVE Walk(_, _, _)
\* the entry reached from directory cur by the names comps, -1 when none
Walk(f, cur, comps) ==
    IF comps = <<>> THEN cur
    ELSE LET next == {i \in 1..Len(f) : f[i].parent = cur /\ f[i].name = Head(comps)}
         IN IF next = {} \/ (cur /= 0 /\ f[cur].type /= "dir") THEN -1
            ELSE Walk(f, CHOOSE i \in next : TRUE, Tail(comps))

\* the entry a path relative to the working directory names, -1 when none
Resolve(f, path) ==
    IF path = "" THEN -1
    ELSE Walk(f, 0, SelectSeq(Components(path), LAMBDA c : c /= "." /\ c /= ""))

\* os.path.exists(path)
os_path_exists(f, path) == Resolve(f, path) /= -1

\* what open, read and ast.parse do with the file at path
FileAt(f, path) ==
    LET e == Resolve(f, path) IN
    IF e = -1
    THEN [path |-> path, open |-> "FileNotFoundError", decode |-> "ok",
          parse |-> "ok", content |-> <<>>, ast |-> <<>>]
    ELSE IF e = 0 \/ f[e].type /= "file"
    THEN [path |-> path, open |-> "IsADirectoryError", decode |-> "ok",
          parse |-> "ok", content |-> <<>>, ast |-> <<>>]
    ELSE [path |-> path, open |-> "ok", decode |-> f[e].holds.decode,
          parse |-> f[e].holds.parse, content |-> f[e].holds.content,
          ast |-> f[e].holds.ast]

(***************************************************************************)
(* main_loop, assistant_active_session, analyze_code_command and           *)
(* compare_files_command                                                   *)
(***************************************************************************)
WAKE_TIMEOUT == 60
SPEECH_TIMEOUT == 5
PHRASE_LIMIT == 6
CommandTimeout == 10
FilesAnalyzed == 5

WAKE_WORDS == {"jarvis", "hey jarvis", "nova"}

\* what the microphone may give while the assistant sleeps
HeardAsleep == {"Jarvis", "hey Nova", "hello"}

\* what take_command may return in the session loop
Utterances ==
    {"", "Go to sleep", "stop listening", "sleep then quit", "exit", "Goodbye",
     "analyze code", "give me a summary", "compare files", "what time is it",
     "date", "what can you do", "hello"}

\* what take_command may return to analyze_code_command
AnalyzeAnswers ==
    {"", "Current directory", "all files", "analyze file a", "b", "c.py", "src",
     "zzz"}

\* what take_command may return to compare_files_command
CompareAnswers == {"", "a", "a.py", "b", "c", "src", "zzz"}

\* a take_command takes its timeout, or the timeout and a phrase
Listening(timeout) == {timeout, timeout + PHRASE_LIMIT}

\* time.time() - last_activity, d seconds later; all the loop asks is whether
\* it is above WAKE_TIMEOUT
Later(d) == Min(elapsed + d, WAKE_TIMEOUT + 1)

\* the branch of the session loop an utterance takes
Command(lower) ==
    IF AnyIn({"sleep", "go to sleep", "stop listening"}, lower) THEN "sleep"
    ELSE IF AnyIn({"exit", "bye", "quit", "goodbye"}, lower) THEN "exit"
    ELSE IF AnyIn({"analyze", "summarize", "summary"}, lower) THEN "analyze"
    ELSE IF Contains(lower, "compare") THEN "compare"
    ELSE IF Contains(lower, "time") THEN "time"
    ELSE IF Contains(lower, "date") THEN "date"
    ELSE IF AnyIn({"help", "what can you do"}, lower) THEN "help"
    ELSE "default"

\* the locals of the commands, gone when a command returns
NoLocals ==
    /\ response' = ""
    /\ file1' = ""
    /\ file2' = ""
    /\ files' = <<>>
    /\ comparison' = <<>>
    /\ results' = <<>>
    /\ analysis' = None
    /\ summary_text' = None

\* main_loop starts: speak_text, then wait_for_wake_word
main_loop ==
    /\ mpc = "start"
    /\ mpc' = "asleep"
    /\ UNCHANGED <<elapsed, text, response, file1, file2, files, comparison, status,
                   visitVars, analyzeVars, walkVars, summaryVars>>

\* wait_for_wake_word hears a wake word and returns True; the session starts:
\* speak_text, last_activity = time.time()
wait_for_wake_word ==
    /\ mpc = "asleep"
    /\ \E heard \in HeardAsleep : AnyIn(WAKE_WORDS, Lower(heard))
    /\ mpc' = "loop"
    /\ elapsed' = 0
    /\ UNCHANGED <<text, response, file1, file2, files, comparison, status,
                   visitVars, analyzeVars, walkVars, summaryVars>>

\* if time.time() - last_activity > WAKE_TIMEOUT: return
session_timeout ==
    /\ mpc = "loop"
    /\ elapsed > WAKE_TIMEOUT
    /\ mpc' = "asleep"
    /\ UNCHANGED <<elapsed, text, response, file1, file2, files, comparison, status,
                   visitVars, analyzeVars, walkVars, summaryVars>>

\* text = take_command(); if not text: continue; last_activity = time.time()
session_listen ==
    /\ mpc = "loop"
    /\ elapsed <= WAKE_TIMEOUT
    /\ \E heard \in Utterances, d \in Listening(SPEECH_TIMEOUT) :
        IF heard = ""
        THEN elapsed' = Later(d) /\ UNCHANGED <<mpc, text>>
        ELSE elapsed' = 0 /\ text' = heard /\ mpc' = "dispatch"
    /\ UNCHANGED <<response, file1, file2, files, comparison, status,
                   visitVars, analyzeVars, walkVars, summaryVars>>

Dispatch(command, next) ==
    /\ mpc = "dispatch"
    /\ Command(Lower(text)) = command
    /\ mpc' = next
    /\ UNCHANGED <<elapsed, text, response, file1, file2, files, comparison, status,
                   visitVars, analyzeVars, walkVars, summaryVars>>

\* the process is over: nothing of it is left but how it ended
Ended(how) ==
    /\ mpc' = "ended"
    /\ status' = how
    /\ elapsed' = 0
    /\ text' = ""
    /\ NoLocals
    /\ file' = None
    /\ apc' = "idle"
    /\ code' = <<>>
    /\ raised' = None
    /\ tree' = <<>>
    /\ todo' = <<>>
    /\ functions' = <<>>
    /\ classes' = <<>>
    /\ imports' = <<>>
    /\ global_vars' = <<>>
    /\ docstring' = None
    /\ complexity_score' = 0
    /\ vpc' = "none"
    /\ directory' = 0
    /\ walk' = <<>>
    /\ listed' = {}
    /\ python_files' = <<>>
    /\ wpc' = "idle"
    /\ UNCHANGED <<fs, gpc>>

session_sleep == Dispatch("sleep", "asleep")

\* speak_text('Goodbye!'); sys.exit(0)
session_exit ==
    /\ mpc = "dispatch"
    /\ Command(Lower(text)) = "exit"
    /\ Ended("SystemExit(0)")

session_analyze == Dispatch("analyze", "analyze_ask")
session_compare == Dispatch("compare", "compare_ask1")
session_time == Dispatch("time", "loop")
session_date == Dispatch("date", "loop")
session_help == Dispatch("help", "loop")
session_default == Dispatch("default", "loop")

\* Ctrl-C inside the try of main_loop: except KeyboardInterrupt: sys.exit(0)
keyboard_interrupt ==
    /\ mpc \notin {"none", "start", "ended"}
    /\ Ended("KeyboardInterrupt")

\* a command returns to the session loop
Return ==
    /\ mpc' = "loop"
    /\ NoLocals
    /\ UNCHANGED <<text, status, file, apc, code, raised, visitVars, gpc>>

\* analyze_python_file(path) is called
Analyze(path) ==
    /\ apc = "idle"
    /\ file' = FileAt(fs, path)
    /\ apc' = "open"

\* response = take_command(timeout=10): nothing heard cancels
analyze_ask ==
    /\ mpc = "analyze_ask"
    /\ \E heard \in AnalyzeAnswers, d \in Listening(CommandTimeout) :
        /\ elapsed' = Later(d)
        /\ IF heard = ""
           THEN Return /\ UNCHANGED walkVars
           ELSE /\ response' = Lower(heard)
                /\ mpc' = "analyze_answered"
                /\ UNCHANGED <<text, file1, file2, files, comparison, status,
                               visitVars, analyzeVars, walkVars, summaryVars>>

AllFiles == Contains(response, "current directory") \/ Contains(response, "all files")

\* files = find_python_files('.')
analyze_find ==
    /\ mpc = "analyze_answered"
    /\ AllFiles
    /\ wpc = "idle"
    /\ directory' = 0
    /\ wpc' = "call"
    /\ mpc' = "analyze_found"
    /\ UNCHANGED <<fs, walk, listed, python_files, elapsed, text, response, file1,
                   file2, files, comparison, status, visitVars, analyzeVars,
                   summaryVars>>

\* if not files: return; else the loop over files[:5] starts
analyze_found ==
    /\ mpc = "analyze_found"
    /\ wpc = "done"
    /\ wpc' = "idle"
    /\ listed' = {}
    /\ python_files' = <<>>
    /\ IF python_files = <<>>
       THEN Return
       ELSE /\ files' = Take(python_files, FilesAnalyzed)
            /\ mpc' = "analyze_each"
            /\ UNCHANGED <<text, response, file1, file2, comparison, status,
                           visitVars, analyzeVars, summaryVars>>
    /\ UNCHANGED <<fs, directory, walk, elapsed>>

\* for filepath in files[:5]: analysis = analyze_python_file(filepath)
analyze_each ==
    /\ mpc = "analyze_each"
    /\ files /= <<>>
    /\ results = <<>>
    /\ Analyze(Head(files))
    /\ UNCHANGED <<code, raised, results, visitVars, walkVars, summaryVars,
                   sessionVars>>

\* summary = generate_summary_text(analysis); print(summary)
analyze_each_print ==
    /\ mpc = "analyze_each"
    /\ apc = "idle"
    /\ Len(results) = 1
    /\ analysis' = results[1]
    /\ summary_text' = SummaryText(results[1])
    /\ results' = <<>>
    /\ files' = Tail(files)
    /\ UNCHANGED <<mpc, elapsed, text, response, file1, file2, comparison, status,
                   file, apc, code, raised, visitVars, walkVars, gpc>>

\* the loop is over: speak_text("Analysis complete...")
analyze_each_done ==
    /\ mpc = "analyze_each"
    /\ apc = "idle"
    /\ files = <<>>
    /\ results = <<>>
    /\ Return
    /\ UNCHANGED <<elapsed, walkVars>>

\* the file named in the answer, as the else branch works it out: '' when
\* neither the name nor the name with '.py' exists
NamedFile ==
    LET filename == StripStr(Remove(Remove(response, "analyze"), "file")) IN
    IF os_path_exists(fs, filename) THEN filename
    ELSE IF os_path_exists(fs, filename \o ".py") THEN filename \o ".py"
    ELSE ""

\* the else branch: the file is looked for; analysis = analyze_python_file(filename)
analyze_one ==
    /\ mpc = "analyze_answered"
    /\ ~AllFiles
    /\ IF NamedFile = ""
       THEN Return /\ UNCHANGED <<elapsed, walkVars>>
       ELSE /\ Analyze(NamedFile)
            /\ mpc' = "analyze_one"
            /\ UNCHANGED <<code, raised, results, visitVars, walkVars, summaryVars,
                           elapsed, text, response, file1, file2, files, comparison,
                           status>>

\* summary = generate_summary_text(analysis); print(summary)
analyze_one_print ==
    /\ mpc = "analyze_one"
    /\ apc = "idle"
    /\ Len(results) = 1
    /\ analysis' = results[1]
    /\ summary_text' = SummaryText(results[1])
    /\ mpc' = "analyze_one_speak"
    /\ UNCHANGED <<elapsed, text, response, file1, file2, files, comparison, status,
                   visitVars, analyzeVars, walkVars, gpc>>

\* the brief or the error message is spoken
analyze_one_speak ==
    /\ mpc = "analyze_one_speak"
    /\ Return
    /\ UNCHANGED <<elapsed, walkVars>>

\* file1 = take_command(timeout=10): nothing heard cancels
compare_ask1 ==
    /\ mpc = "compare_ask1"
    /\ \E heard \in CompareAnswers, d \in Listening(CommandTimeout) :
        /\ elapsed' = Later(d)
        /\ IF heard = ""
           THEN Return /\ UNCHANGED walkVars
           ELSE /\ file1' = heard
                /\ mpc' = "compare_ask2"
                /\ UNCHANGED <<text, response, file2, files, comparison, status,
                               visitVars, analyzeVars, walkVars, summaryVars>>

\* '.py' is added to a name that does not end in it
WithPy(name) == IF EndsWith(name, DotPy) THEN name ELSE name \o DotPy

\* file2 = take_command(timeout=10); '.py' is added; both files must exist
compare_ask2 ==
    /\ mpc = "compare_ask2"
    /\ \E heard \in CompareAnswers, d \in Listening(CommandTimeout) :
        /\ elapsed' = Later(d)
        /\ IF \/ heard = ""
              \/ ~os_path_exists(fs, WithPy(file1))
              \/ ~os_path_exists(fs, WithPy(heard))
           THEN Return /\ UNCHANGED walkVars
           ELSE /\ file1' = WithPy(file1)
                /\ file2' = WithPy(heard)
                /\ mpc' = "compare_analysis1"
                /\ UNCHANGED <<text, response, files, comparison, status,
                               visitVars, analyzeVars, walkVars, summaryVars>>

\* analysis1 = analyze_python_file(file1)
compare_analysis1 ==
    /\ mpc = "compare_analysis1"
    /\ Analyze(file1)
    /\ mpc' = "compare_analysis2"
    /\ UNCHANGED <<code, raised, results, visitVars, walkVars, summaryVars,
                   elapsed, text, response, file1, file2, files, comparison, status>>

\* analysis2 = analyze_python_file(file2)
compare_analysis2 ==
    /\ mpc = "compare_analysis2"
    /\ Len(results) = 1
    /\ Analyze(file2)
    /\ mpc' = "compare_report"
    /\ UNCHANGED <<code, raised, results, visitVars, walkVars, summaryVars,
                   elapsed, text, response, file1, file2, files, comparison, status>>

\* abs without the sign test
AbsForgotten(x) == x

\* abs(x)
Abs(x) == IF x < 0 THEN -x ELSE x

\* the three differences of the report
Differences(analysis1, analysis2) ==
    [lines |-> Abs(analysis1.total_lines - analysis2.total_lines),
     functions |-> Abs(Len(analysis1.functions) - Len(analysis2.functions)),
     classes |-> Abs(Len(analysis1.classes) - Len(analysis2.classes))]

\* the keys the report reads of each analysis
ReportKeys == {"filename", "total_lines", "functions", "classes"}

\* comparison = f"""...""": a key that is not there raises KeyError, which
\* nothing below main_loop catches; print(comparison)
compare_report ==
    /\ mpc = "compare_report"
    /\ apc = "idle"
    /\ Len(results) = 2
    /\ IF \A i \in 1..2 : ReportKeys \subseteq DOMAIN results[i]
       THEN /\ comparison' = <<Differences(results[1], results[2])>>
            /\ mpc' = "compare_speak"
            /\ UNCHANGED <<elapsed, text, response, file1, file2, files, status,
                           visitVars, analyzeVars, walkVars, summaryVars>>
       ELSE Ended("KeyError")

\* speak_text(f"File 1 has ..."); the command returns
compare_speak ==
    /\ mpc = "compare_speak"
    /\ Return
    /\ UNCHANGED <<elapsed, walkVars>>

\* the assistant is started in a directory
InitSession ==
    /\ mpc = "start"
    /\ elapsed = 0
    /\ text = ""
    /\ response = ""
    /\ file1 = ""
    /\ file2 = ""
    /\ files = <<>>
    /\ comparison = <<>>
    /\ status = None
    /\ fs \in Disks
    /\ directory = 0
    /\ walk = <<>>
    /\ listed = {}
    /\ python_files = <<>>
    /\ wpc = "idle"
    /\ AnalyzerIdle
    /\ SummaryIdle

NextSession ==
    \/ main_loop
    \/ wait_for_wake_word
    \/ session_timeout
    \/ session_listen
    \/ session_sleep
    \/ session_exit
    \/ session_analyze
    \/ session_compare
    \/ session_time
    \/ session_date
    \/ session_help
    \/ session_default
    \/ keyboard_interrupt
    \/ analyze_ask
    \/ analyze_find
    \/ find_python_files
    \/ walk_step
    \/ walk_return
    \/ analyze_found
    \/ analyze_each
    \/ analyze_each_print
    \/ analyze_each_done
    \/ analyze_one
    \/ analyze_one_print
    \/ analyze_one_speak
    \/ compare_ask1
    \/ compare_ask2
    \/ compare_analysis1
    \/ compare_analysis2
    \/ analyze_read
    \/ analyze_parse
    \/ visit_Module
    \/ VisitStep
    \/ visit_return
    \/ analyze_return
    \/ except_SyntaxError
    \/ except_Exception
    \/ compare_report
    \/ compare_speak

SpecSession == InitSession /\ [][NextSession]_vars

(***************************************************************************)
(* The comparison of compare_files_command on its own, over pairs of       *)
(* analysis results                                                        *)
(***************************************************************************)
MaxCount == 3

\* a success result of the given numbers of lines, functions and classes
Measured(lines, nf, nc) ==
    [SomeAnalysis(0, nc, nf, None, 0) EXCEPT !.total_lines = lines,
                                             !.code_lines = lines]

Measurements ==
    {Measured(l, nf, nc) : l \in 0..MaxCount, nf \in 0..MaxCount, nc \in 0..MaxCount}
    \cup {[error |-> <<"Syntax error in file: ", "SyntaxError">>]}

\* both analyses have returned and the report is next
InitCompare ==
    /\ mpc = "compare_report"
    /\ elapsed = CommandTimeout + CommandTimeout
    /\ text = "compare files"
    /\ response = ""
    /\ file1 = "a.py"
    /\ file2 = "c.py"
    /\ files = <<>>
    /\ comparison = <<>>
    /\ status = None
    /\ fs = ProjectDisk
    /\ directory = 0
    /\ walk = <<>>
    /\ listed = {}
    /\ python_files = <<>>
    /\ wpc = "idle"
    /\ file = FileAt(ProjectDisk, "c.py")
    /\ apc = "idle"
    /\ code = <<>>
    /\ raised = None
    /\ results \in {<<a, b>> : a \in Measurements, b \in Measurements}
    /\ tree = <<>>
    /\ todo = <<>>
    /\ functions = <<>>
    /\ classes = <<>>
    /\ imports = <<>>
    /\ global_vars = <<>>
    /\ docstring = None
    /\ complexity_score = 0
    /\ vpc = "none"
    /\ SummaryIdle

NextCompare ==
    \/ compare_report
    \/ compare_speak

SpecCompare == InitCompare /\ [][NextCompare]_vars

(***************************************************************************)
(* Properties of the visitor                                               *)
(***************************************************************************)
RECURSIVE SumOver(_, _)
SumOver(S, w) ==
    IF S = {} THEN 0
    ELSE LET x == CHOOSE y \in S : TRUE IN w[x] + SumOver(S \ {x}, w)

NodesOf(t, kinds) == {n \in 1..Len(t) : t[n].kind \in kinds}
Children(t, n) == {m \in 1..Len(t) : t[m].parent = n}

\* the score the tree should end with: per function its immediate statements,
\* per class twice the functions declared directly in its body
ExpectedScore(t) ==
    SumOver(NodesOf(t, FunctionKinds),
            [n \in 1..Len(t) |-> Cardinality(Children(t, n))])
    + SumOver(NodesOf(t, {"ClassDef"}),
              [n \in 1..Len(t) |->
                    2 * Cardinality(Children(t, n) \cap NodesOf(t, FunctionKinds))])

LineNumbers(infos) == [i \in 1..Len(infos) |-> infos[i].line_number]
NoDuplicates(s) == Cardinality(Range(s)) = Len(s)
LinesOf(t, kinds) == {t[n].lineno : n \in NodesOf(t, kinds)}

C9_ScoreState ==
    /\ complexity_score >= 0
    /\ (vpc \in {"visiting", "done"} /\ functions = <<>> /\ classes = <<>>)
            => complexity_score = 0
    /\ NoDuplicates(LineNumbers(functions))
    /\ NoDuplicates(LineNumbers(classes))
    /\ vpc = "done" =>
        /\ complexity_score = ExpectedScore(tree)
        /\ Range(LineNumbers(functions)) = LinesOf(tree, FunctionKinds)
        /\ Range(LineNumbers(classes)) = LinesOf(tree, {"ClassDef"})

\* C9: during one traversal the complexity score starts at 0, is never
\* negative and never decreases; when the traversal ends it is the sum over the
\* recorded functions of their immediate statements plus twice, per recorded
\* class, the functions declared directly in its body, and every function and
\* class definition of the tree is recorded exactly once.
C9_ScoreOfTraversal ==
    /\ []C9_ScoreState
    /\ [][complexity_score' >= complexity_score]_vars

\* a finished traversal of a class whose method holds a nested definition's
\* worth of statements: class, method and body all counted
C9_Witness ==
    /\ vpc = "done"
    /\ Len(tree) = 3
    /\ Len(classes) = 1
    /\ Len(functions) = 1
    /\ classes[1].methods /= <<>>
    /\ complexity_score = 3

\* the statements inside the body of a function, a method or a class
Local(t, n) ==
    \E a \in Ancestors(t, t[n].parent) \ {0} :
        t[a].kind \in FunctionKinds \cup {"ClassDef"}

AssignedNames(t, S) == UNION {Range(NameTargets(t[n].targets)) : n \in S}

\* C6: global_vars holds the simple-name targets of the module's top-level
\* assignment statements, and a name assigned only inside a function body, a
\* method body or a class body is not recorded.  (An assignment under a
\* module-level compound statement is counted with the module here.)
C6_NoLocalNames ==
    vpc = "done" =>
        /\ AssignedNames(tree, {n \in NodesOf(tree, {"Assign"}) : tree[n].parent = 0})
                \subseteq Range(global_vars)
        /\ Range(global_vars) \subseteq
                AssignedNames(tree, {n \in NodesOf(tree, {"Assign"}) : ~Local(tree, n)})

(***************************************************************************)
(* Properties of analyze_python_file                                       *)
(***************************************************************************)
IsSuccess(r) == DOMAIN r = SuccessKeys
IsError(r) == DOMAIN r = {"error"}
Unusable(f) == f.open /= "ok" \/ f.decode /= "ok" \/ f.parse /= "ok"

\* C1: analyze_python_file returns without raising; what it returns is a
\* success record with all nine fact fields and no 'error', or a record with
\* 'error' alone; a file that cannot be read or parsed gives the error record.
C1_TotalAndTagged ==
    /\ apc /= "propagated"
    /\ \A i \in 1..Len(results) :
        /\ IsSuccess(results[i]) \/ IsError(results[i])
        /\ Unusable(file) => IsError(results[i])
        /\ ~Unusable(file) => IsSuccess(results[i])

\* a file that is not UTF-8 has been answered with the error record
C1_Witness ==
    /\ file.decode = "UnicodeDecodeError"
    /\ Len(results) = 1
    /\ IsError(results[1])
    /\ apc = "idle"

SameAsSets(a, b) == Range(a) = Range(b)

SameStructure(a, b) ==
    IF IsError(a) \/ IsError(b) THEN a = b
    ELSE /\ a.filename = b.filename
         /\ a.total_lines = b.total_lines
         /\ a.code_lines = b.code_lines
         /\ a.complexity = b.complexity
         /\ a.docstring = b.docstring
         /\ a.functions = b.functions
         /\ a.classes = b.classes
         /\ SameAsSets(a.imports, b.imports)
         /\ SameAsSets(a.global_vars, b.global_vars)

\* C2: two analyses of the same unchanged file give structurally identical
\* results, decorators and base classes that fall back to the textual
\* rendering of the node included.
C2_Deterministic ==
    \A i, j \in 1..Len(results) : SameStructure(results[i], results[j])

(***************************************************************************)
(* Properties of find_python_files                                         *)
(***************************************************************************)
\* the directories on the way from entry d up to the working directory, d
\* included
RECURSIVE Enclosing(_, _)
Enclosing(f, d) == IF d = 0 THEN {} ELSE {d} \cup Enclosing(f, f[d].parent)

\* the directory names the walk is to keep out of
NonCodeNames == {".git", "__pycache__", "venv", "env", "node_modules"}

\* the directories a path goes through, and its file name
DirPart(path) == SubSeq(Components(path), 1, Len(Components(path)) - 1)
Last(path) == Components(path)[Len(Components(path))]

\* C3 as stated: whatever the root argument, no returned path lies inside a
\* directory with a skipped name, and every returned path ends in '.py'.
C3_NeverInsideSkipped ==
    \A k \in 1..Len(python_files) :
        /\ Range(DirPart(python_files[k])) \cap NonCodeNames = {}
        /\ EndsWith(Last(python_files[k]), DotPy)

\* C3 amended: no returned path goes through a directory with a skipped name
\* below the root argument and no such directory is listed: they are pruned
\* before descent; every returned path ends in '.py'.  The root argument
\* itself is walked whatever the names in its own path.
C3_NeverInsideSkippedBelowRoot ==
    LET root == Components(RootPath(fs, directory)) IN
    /\ \A k \in 1..Len(python_files) :
        LET dirs == DirPart(python_files[k]) IN
        /\ SubSeq(dirs, 1, Len(root)) = root
        /\ Range(SubSeq(dirs, Len(root) + 1, Len(dirs))) \cap NonCodeNames = {}
        /\ EndsWith(Last(python_files[k]), DotPy)
    /\ \A d \in listed :
        \A e \in Enclosing(fs, d) \ Enclosing(fs, directory) :
            fs[e].name \notin NonCodeNames

\* a walk that ended with a file found while a '.py' file under a skipped
\* directory below the root was left out
C3_Witness ==
    /\ wpc = "done"
    /\ Len(python_files) = 1
    /\ \E d \in DirsOf(fs), x \in 1..Len(fs) :
        /\ fs[d].name \in NonCodeNames
        /\ fs[d].parent = directory
        /\ fs[x].parent = d
        /\ fs[x].type = "file"
        /\ EndsWith(fs[x].name, DotPy)

(***************************************************************************)
(* Properties of generate_summary_text                                     *)
(***************************************************************************)
\* the section a part of the text belongs to, read off its fixed wording
KindOf(part) ==
    CASE part[1] = "File: " -> "filename"
      [] part[1] = "Total lines: " -> "lines"
      [] part[1] = "Description: " -> "description"
      [] part[1] = "Uses " -> "imports"
      [] part[1] = "Contains " /\ part[3] = " classes:" -> "classes"
      [] part[1] = "Contains " /\ part[3] = " functions:" -> "functions"
      [] part[1] = "  - " /\ part[3] = " with " -> "class"
      [] part[1] = "  - " /\ part[3] = "(" -> "function"
      [] part[1] = "Code complexity: " -> "complexity"
      [] OTHER -> "other"

Times(kind, n) == [k \in 1..n |-> kind]
Opt(cond, s) == IF cond THEN s ELSE <<>>

\* where the first part of a kind stands in the text, 0 when there is none
First(txt, kind) ==
    LET at == {i \in 1..Len(txt) : KindOf(txt[i]) = kind}
    IN IF at = {} THEN 0 ELSE CHOOSE i \in at : \A j \in at : i <= j

C7_SuccessLayout(a, txt) ==
    LET hasdoc == a.docstring /= None /\ a.docstring /= ""
        ni == Len(a.imports)
        nc == Len(a.classes)
        nf == Len(a.functions)
        shownc == IF nc > 3 THEN 3 ELSE nc
        shownf == IF nf > 5 THEN 5 ELSE nf
        showni == IF ni > 5 THEN 5 ELSE ni
        d == First(txt, "description")
        i == First(txt, "imports")
        c == First(txt, "classes")
        f == First(txt, "functions")
    IN
    /\ [k \in 1..Len(txt) |-> KindOf(txt[k])] =
            <<"filename", "lines">>
            \o Opt(hasdoc, <<"description">>)
            \o Opt(ni > 0, <<"imports">>)
            \o Opt(nc > 0, <<"classes">> \o Times("class", shownc))
            \o Opt(nf > 0, <<"functions">> \o Times("function", shownf))
            \o <<"complexity">>
    /\ txt[1][2] = a.filename
    /\ txt[2][2] = a.total_lines /\ txt[2][4] = a.code_lines
    /\ hasdoc =>
        /\ Len(txt[d][2]) = (IF Len(a.docstring) > 100 THEN 100 ELSE Len(a.docstring))
        /\ a.docstring =
                txt[d][2] \o SubSeq(a.docstring, Len(txt[d][2]) + 1, Len(a.docstring))
    /\ ni > 0 =>
        /\ txt[i][2] = ni
        /\ Len(txt[i][4]) = showni
        /\ \A k \in 1..showni : txt[i][4][k] = a.imports[k]
    /\ nc > 0 =>
        /\ txt[c][2] = nc
        /\ \A k \in 1..shownc :
            /\ txt[c + k][2] = a.classes[k].name
            /\ txt[c + k][4] = Len(a.classes[k].methods)
    /\ nf > 0 =>
        /\ txt[f][2] = nf
        /\ \A k \in 1..shownf :
            /\ txt[f + k][2] = a.functions[k].name
            /\ txt[f + k][4] = (IF a.functions[k].args = <<>> THEN "no args"
                                 ELSE a.functions[k].args)

\* C7: the text of a success-state analysis is, in this order, the filename,
\* the line counts, the description, the imports, the classes, the functions
\* and the complexity label last; a section is there exactly when its field
\* is non-empty; the description is the first 100 characters; at most 5
\* imports, 3 classes and 5 functions are listed, in order, under the full
\* counts.  The text of an error-state analysis is the error message alone.
C7_SummaryLayout ==
    gpc = "done" =>
        IF "error" \in DOMAIN analysis
        THEN summary_text = <<analysis.error>>
        ELSE C7_SuccessLayout(analysis, summary_text)

\* a summary written with a description longer than 100 characters and more
\* imports, classes and functions than are listed
C7_Witness ==
    /\ gpc = "done"
    /\ "error" \notin DOMAIN analysis
    /\ analysis.docstring /= None
    /\ Len(analysis.docstring) > 100
    /\ Len(analysis.imports) > 5
    /\ Len(analysis.classes) > 3
    /\ Len(analysis.functions) > 5
    /\ Len(summary_text) = 15

\* the label of the text
Label(txt) == txt[Len(txt)][2]

\* C8: the label is 'simple' exactly for a score below 50, 'moderate'
\* exactly for a score from 50 to 149, 'complex' exactly from 150 on.
C8_Thresholds ==
    (gpc = "done" /\ "error" \notin DOMAIN analysis) =>
        LET score == analysis.complexity IN
        /\ score >= 0
        /\ Label(summary_text) \in {"simple", "moderate", "complex"}
        /\ Label(summary_text) = "simple" <=> score < 50
        /\ Label(summary_text) = "moderate" <=> (50 <= score /\ score < 150)
        /\ Label(summary_text) = "complex" <=> score >= 150

\* a summary of score 50, the lower edge of 'moderate'
C8_Witness ==
    /\ gpc = "done"
    /\ "error" \notin DOMAIN analysis
    /\ analysis.complexity = 50
    /\ Label(summary_text) = "moderate"

(***************************************************************************)
(* Properties of compare_files_command                                     *)
(***************************************************************************)
\* how far apart two numbers are
Distance(x, y) == IF x >= y THEN x - y ELSE y - x

\* C4: for two success results the report's differences are the distances of
\* the line, function and class counts, none negative; they are the same with
\* the two results swapped, and all zero when the two are the same result.
C4_Deltas ==
    mpc = "compare_speak" =>
        LET a == results[1]
            b == results[2]
            d == comparison[1]
        IN /\ IsSuccess(a) /\ IsSuccess(b)
           /\ d.lines = Distance(a.total_lines, b.total_lines)
           /\ d.functions = Distance(Len(a.functions), Len(b.functions))
           /\ d.classes = Distance(Len(a.classes), Len(b.classes))
           /\ d.lines \in Nat /\ d.functions \in Nat /\ d.classes \in Nat
           /\ Differences(b, a) = d
           /\ a = b => d = [lines |-> 0, functions |-> 0, classes |-> 0]

\* two results that differ in all three counts, the first the smaller, have
\* been compared
C4_Witness ==
    /\ mpc = "compare_speak"
    /\ results[1].total_lines < results[2].total_lines
    /\ Len(results[1].functions) < Len(results[2].functions)
    /\ Len(results[1].classes) < Len(results[2].classes)
    /\ comparison[1].lines > 0

\* C5: the report is built only from two success results: when both analyses
\* have returned and one of them is an error record, the comparison is not
\* attempted.
C5_ComparesOnlySuccesses ==
    (mpc = "compare_report" /\ apc = "idle" /\ Len(results) = 2) =>
        IsSuccess(results[1]) /\ IsSuccess(results[2])

(***************************************************************************)
(* Properties of the session                                               *)
(***************************************************************************)
\* C10: the assistant stops only by an exit command or a keyboard interrupt;
\* whatever the files a command names hold, the command returns to the
\* session.
C10_StopsOnlyOnRequest ==
    mpc = "ended" => status \in {"SystemExit(0)", "KeyboardInterrupt"}

====
